---- MODULE Spec2Model ----
(***************************************************************************)
(* Model of nibabel/streamlines/tractogram.py: the eager Tractogram, the   *)
(* LazyTractogram and the affine bookkeeping shared by both.               *)
(*                                                                         *)
(* Numbers.  Affines are 4x4 integer matrices whose last row is 0 0 0 1.   *)
(* The inputs are unimodular (determinant of the 3x3 block is 1 or -1), so *)
(* that the inverse is exact, plus one singular matrix.  Lengths (point    *)
(* coordinates and the translation column) are counted in units of 1e-8,   *)
(* the absolute tolerance of numpy.allclose; entries of the 3x3 block are  *)
(* plain integers.                                                         *)
(***************************************************************************)
EXTENDS Integers, Sequences, FiniteSets, TLC

\* ------------------------------------------------------------------ bounds
\* Number of method calls in one behaviour.
MaxOps == 2
\* Number of eager tractogram objects alive at once.
MaxEager == 2
\* Number of lazy tractogram objects alive at once.
MaxLazy == 3

\* largest number of elements a PerArrayDict is made for
MaxN == 2

\* largest number of points in the buffer of the chunked transform
MaxPoints == 4

\* largest size of a chunk of the chunked transform
MaxChunk == 5

\* ----------------------------------------------------------- 4x4 matrices
Abs(x) == IF x < 0 THEN -x ELSE x

Min(a, b) == IF a < b THEN a ELSE b

\* np.eye(4)
Eye4 == << <<1, 0, 0, 0>>, <<0, 1, 0, 0>>, <<0, 0, 1, 0>>, <<0, 0, 0, 1>> >>

\* np.dot(a, b) of two 4x4 matrices
Dot(a, b) ==
  [i \in 1..4 |-> [j \in 1..4 |->
      a[i][1] * b[1][j] + a[i][2] * b[2][j] + a[i][3] * b[3][j] + a[i][4] * b[4][j]]]

\* determinant of the upper-left 3x3 block
Det3(a) ==
    a[1][1] * (a[2][2] * a[3][3] - a[2][3] * a[3][2])
  - a[1][2] * (a[2][1] * a[3][3] - a[2][3] * a[3][1])
  + a[1][3] * (a[2][1] * a[3][2] - a[2][2] * a[3][1])

\* np.linalg.inv raises LinAlgError on a singular matrix
IsSingular(a) == Det3(a) = 0

Cyc(k) == (k % 3) + 1

\* inverse of the 3x3 block: adjugate over determinant (exact here, the
\* determinant being 1 or -1)
Inv3(a) ==
  [i \in 1..3 |-> [j \in 1..3 |->
      ( a[Cyc(j)][Cyc(i)] * a[Cyc(Cyc(j))][Cyc(Cyc(i))]
      - a[Cyc(j)][Cyc(Cyc(i))] * a[Cyc(Cyc(j))][Cyc(i)] ) \div Det3(a)]]

\* np.linalg.inv(a) for a = [R t; 0 1]: [R^-1, -R^-1 t; 0 1]
Inv(a) ==
  LET r == Inv3(a)
  IN [i \in 1..4 |-> [j \in 1..4 |->
        IF i = 4 THEN (IF j = 4 THEN 1 ELSE 0)
        ELSE IF j < 4 THEN r[i][j]
        ELSE -(r[i][1] * a[1][4] + r[i][2] * a[2][4] + r[i][3] * a[3][4])]]

\* absolute tolerance of np.allclose, in the unit of lengths
Atol == 1

\* np.allclose(a, np.eye(4)): |a - b| <= atol + rtol * |b| entrywise.  The
\* 3x3 block is integer, so it is close only when equal (atol + rtol < 1);
\* a translation entry is close to 0 when at most Atol units.
AllcloseEye(a) ==
  /\ \A i \in 1..4 : \A j \in 1..3 : a[i][j] = Eye4[i][j]
  /\ \A i \in 1..3 : Abs(a[i][4]) <= Atol
  /\ a[4][4] = 1

\* one point through an affine: R p + t
ApplyPt(aff, p) ==
  [i \in 1..3 |-> aff[i][1] * p[1] + aff[i][2] * p[2] + aff[i][3] * p[3] + aff[i][4]]

\* nibabel.affines.apply_affine(aff, pts) on an (N, 3) array of points
apply_affine(aff, pts) == [k \in 1..Len(pts) |-> ApplyPt(aff, pts[k])]

Translation(x, y, z) ==
  << <<1, 0, 0, x>>, <<0, 1, 0, y>>, <<0, 0, 1, z>>, <<0, 0, 0, 1>> >>

\* the translation of the usage scenario
Shift123 == Translation(1, 2, 3)

\* a translation inside the tolerance of np.allclose
Tiny == Translation(1, 0, 0)

\* quarter turn about z followed by a shift along x
Turn == << <<0, -1, 0, 2>>, <<1, 0, 0, 0>>, <<0, 0, 1, 0>>, <<0, 0, 0, 1>> >>

\* projection on the x axis: not invertible
Flat == << <<1, 0, 0, 0>>, <<0, 0, 0, 0>>, <<0, 0, 0, 0>>, <<0, 0, 0, 1>> >>

Invertibles == {Shift123, Tiny, Turn}

\* the affines handed to apply_affine
Affines == Invertibles \cup {Flat}

\* product An . ... . A1 of a list <<A1, ..., An>> of affines
RECURSIVE Compose(_)
Compose(affs) ==
  IF affs = <<>> THEN Eye4
  ELSE Dot(affs[Len(affs)], Compose(SubSeq(affs, 1, Len(affs) - 1)))

\* ------------------------------------------------------- ragged sequences
\* An ArraySequence: one buffer _data of points and the length of every
\* streamline; streamline i starts at the sum of the lengths before it.
RECURSIVE Offset(_, _)
Offset(lengths, i) == IF i <= 1 THEN 0 ELSE Offset(lengths, i - 1) + lengths[i - 1]

\* ArraySequence.__getitem__(i) for an integer i (1-based here)
StreamlineAt(t, i) ==
  SubSeq(t.data, Offset(t.lengths, i) + 1, Offset(t.lengths, i) + t.lengths[i])

\* iterating an ArraySequence: its streamlines in order
StreamlinesOf(t) == [i \in 1..Len(t.lengths) |-> StreamlineAt(t, i)]

\* ------------------------------------------------------- eager tractogram
\* A Tractogram object: _streamlines (data, lengths), _data_per_streamline
\* (key -> one value per streamline), _data_per_point (key -> per streamline
\* one value per point) and _affine_to_rasmm; n_elements is the number of
\* streamlines _data_per_streamline was instantiated for.
P0 == <<0, 0, 0>>
P1 == <<1, 0, 0>>
P2 == <<0, 2, 1>>

NoKeys == [k \in {} |-> <<>>]

EmptyTractogram(aff) ==
  [data |-> <<>>, lengths |-> <<>>, dps |-> NoKeys, dpp |-> NoKeys, aff |-> aff,
   n_elements |-> 0]

TwoStreamlines(aff) ==
  [data |-> <<P0, P1, P2>>, lengths |-> <<2, 1>>,
   dps |-> [k \in {"mean"} |-> <<7, 8>>],
   dpp |-> [k \in {"fa"} |-> << <<3, 4>>, <<5>> >>],
   aff |-> aff, n_elements |-> 2]

\* the affine_to_rasmm given at construction
InitAffines == {Eye4, Turn}

\* the tractograms a caller constructs
InitTractograms ==
  {EmptyTractogram(Turn)} \cup {TwoStreamlines(w) : w \in InitAffines}

\* Tractogram.__len__
Tractogram_len(t) == Len(t.lengths)

\* Tractogram.get_affine_to_rasmm
get_affine_to_rasmm(t) == t.aff

\* get_affine_to_rasmm that hands out the stored matrix itself
WriteToReturnedAffine_Live(stored, written) == written

\* The caller writes into the matrix get_affine_to_rasmm returned: what the
\* stored matrix is afterwards.  The method returns a copy, so the stored
\* matrix is not reached.
WriteToReturnedAffine(stored, written) == stored

\* Tractogram.__getitem__(i) for an integer i: a TractogramItem
Tractogram_getitem(t, i) ==
  [streamline |-> StreamlineAt(t, i),
   data_for_streamline |-> [k \in DOMAIN t.dps |-> t.dps[k][i]],
   data_for_points |-> [k \in DOMAIN t.dpp |-> t.dpp[k][i]]]

\* Tractogram.__iter__: the items in order
Tractogram_iter(t) == [i \in 1..Tractogram_len(t) |-> Tractogram_getitem(t, i)]

\* copy that builds a new Tractogram and does not hand over the affine
Tractogram_copy_DropsAffine(t) == [t EXCEPT !.aff = Eye4]

\* Tractogram.copy: a deep copy
Tractogram_copy(t) == t

\* s[lo:hi] of a sequence (lo, hi from 0, hi excluded and clipped)
PySlice(s, lo, hi) == SubSeq(s, lo + 1, Min(hi, Len(s)))

\* the buffer of the ArraySequence made of a list of streamlines
RECURSIVE Flatten(_)
Flatten(ss) == IF ss = <<>> THEN <<>> ELSE Head(ss) \o Flatten(Tail(ss))

\* t[lo:hi] that hands the whole data_per_streamline to the new Tractogram
Tractogram_getitem_slice_KeepsAllRows(t, lo, hi) ==
  LET pts == PySlice(StreamlinesOf(t), lo, hi)
  IN [obj |-> [data |-> Flatten(pts), lengths |-> [k \in 1..Len(pts) |-> Len(pts[k])],
               dps |-> t.dps,
               dpp |-> [key \in DOMAIN t.dpp |-> PySlice(t.dpp[key], lo, hi)],
               aff |-> Eye4, n_elements |-> Len(pts)],
      err |-> "none"]

\* Tractogram.__getitem__(slice(lo, hi)): Tractogram(pts, data_per_streamline,
\* data_per_point) of the sliced streamlines and values, with the default
\* affine.  The new data_per_streamline rejects values whose number differs
\* from the number of streamlines.
Tractogram_getitem_slice(t, lo, hi) ==
  LET pts == PySlice(StreamlinesOf(t), lo, hi)
      data_per_streamline == [key \in DOMAIN t.dps |-> PySlice(t.dps[key], lo, hi)]
      data_per_point == [key \in DOMAIN t.dpp |-> PySlice(t.dpp[key], lo, hi)]
  IN [obj |-> [data |-> Flatten(pts), lengths |-> [k \in 1..Len(pts) |-> Len(pts[k])],
               dps |-> data_per_streamline, dpp |-> data_per_point,
               aff |-> Eye4, n_elements |-> Len(pts)],
      err |-> IF \E key \in DOMAIN t.dps : Len(data_per_streamline[key]) # Len(pts)
              THEN "ValueError" ELSE "none"]

\* the streamlines setter: t.streamlines = value.  Nothing else is touched.
Tractogram_set_streamlines(t, value) ==
  [t EXCEPT !.data = value.data, !.lengths = value.lengths]

\* t.data_per_streamline[key] = value, one number per element of value:
\* PerArrayDict.__setitem__ checks the number of values against n_elements
Tractogram_set_data_per_streamline(t, key, value) ==
  IF Len(value) # t.n_elements THEN [t |-> t, err |-> "ValueError"]
  ELSE [t |-> [t EXCEPT !.dps = (key :> value) @@ t.dps], err |-> "none"]

BUFFER_SIZE == 10000000

\* the loop of Tractogram.apply_affine over the buffer, chunk by chunk:
\* for start in range(0, len(_data), B): _data[start:end] = apply_affine(...)
RECURSIVE TransformInChunks(_, _, _, _)
TransformInChunks(data, affine, start, B) ==
  IF start >= Len(data) THEN data
  ELSE LET end == start + B
           pts == SubSeq(data, start + 1, Min(end, Len(data)))
           new == apply_affine(affine, pts)
       IN TransformInChunks(
            [k \in 1..Len(data) |->
               IF k > start /\ k <= end THEN new[k - start] ELSE data[k]],
            affine, end, B)

\* a body of the loop that leaves the last point of data[start:start + B] as it is
OneChunk_SkipsLast(data, affine, start, B) ==
  LET end == start + B
      pts == SubSeq(data, start + 1, Min(end, Len(data)))
      new == apply_affine(affine, pts)
  IN [k \in 1..Len(data) |->
        IF k > start /\ k < end THEN new[k - start] ELSE data[k]]

\* one pass through the body of the loop:
\* end = start + B; pts = _data[start:end]; _data[start:end] = apply_affine(affine, pts)
OneChunk(data, affine, start, B) ==
  LET end == start + B
      pts == SubSeq(data, start + 1, Min(end, Len(data)))
      new == apply_affine(affine, pts)
  IN [k \in 1..Len(data) |->
        IF k > start /\ k <= end THEN new[k - start] ELSE data[k]]

\* Tractogram.apply_affine with the stored affine multiplied on the wrong side
Tractogram_apply_affine_WrongSide(t, affine) ==
  IF Tractogram_len(t) = 0 THEN [t |-> t, err |-> "none"]
  ELSE LET moved == [t EXCEPT !.data = TransformInChunks(t.data, affine, 0, BUFFER_SIZE)]
       IN IF IsSingular(affine) THEN [t |-> moved, err |-> "LinAlgError"]
          ELSE [t |-> [moved EXCEPT !.aff = Dot(Inv(affine), t.aff)], err |-> "none"]

\* Tractogram.apply_affine with the stored affine multiplied by the affine
\* itself, not by its inverse
Tractogram_apply_affine_NoInverse(t, affine) ==
  IF Tractogram_len(t) = 0 THEN [t |-> t, err |-> "none"]
  ELSE LET moved == [t EXCEPT !.data = TransformInChunks(t.data, affine, 0, BUFFER_SIZE)]
       IN IF IsSingular(affine) THEN [t |-> moved, err |-> "LinAlgError"]
          ELSE [t |-> [moved EXCEPT !.aff = Dot(t.aff, affine)], err |-> "none"]

\* Tractogram.apply_affine without the early return on zero streamlines
Tractogram_apply_affine_NoEarlyReturn(t, affine) ==
  LET moved == [t EXCEPT !.data = TransformInChunks(t.data, affine, 0, BUFFER_SIZE)]
  IN IF IsSingular(affine) THEN [t |-> moved, err |-> "LinAlgError"]
     ELSE [t |-> [moved EXCEPT !.aff = Dot(t.aff, Inv(affine))], err |-> "none"]

\* Tractogram.apply_affine(affine, lazy=False): the object afterwards and the
\* error raised, if any.  The points are transformed before the affine is
\* inverted, so a singular affine raises with the points already changed.
Tractogram_apply_affine(t, affine) ==
  IF Tractogram_len(t) = 0 THEN [t |-> t, err |-> "none"]
  ELSE LET moved == [t EXCEPT !.data = TransformInChunks(t.data, affine, 0, BUFFER_SIZE)]
       IN IF IsSingular(affine) THEN [t |-> moved, err |-> "LinAlgError"]
          ELSE [t |-> [moved EXCEPT !.aff = Dot(t.aff, Inv(affine))], err |-> "none"]

\* ------------------------------------------------------ generator sources
\* What the generator functions handed to a LazyTractogram yield: every
\* call of one restarts it and yields the same TractogramItems in order.
Gens ==
  << <<>>,
     << [streamline |-> <<P1, P2>>,
         data_for_streamline |-> [k \in {"mean"} |-> 7],
         data_for_points |-> [k \in {"fa"} |-> <<3, 4>>]],
        [streamline |-> <<P0>>,
         data_for_streamline |-> [k \in {"mean"} |-> 8],
         data_for_points |-> [k \in {"fa"} |-> <<5>>]] >> >>

GenIds == 1..Len(Gens)

\* keys of the per-streamline and per-point generator functions of a source
GenKeys(g, field) == IF Gens[g] = <<>> THEN {} ELSE DOMAIN Gens[g][1][field]

VARIABLES
  eag,    \* the Tractogram objects, by identity
  lz,     \* the LazyTractogram objects, by identity
  hist,   \* per Tractogram: its value at a base point and the affines applied since
  chain,  \* per LazyTractogram: the world-affine of its base and the affines applied since
  last,   \* the last call: receiver, arguments, result and what it invoked
  ops,    \* number of calls made
  loop,   \* the loop of Tractogram.apply_affine over the buffer, pass by pass
  pdict,  \* one PerArrayDict: n_elements and store
  dlast   \* the last access to pdict: key, value, result

vars == <<eag, lz, hist, chain, last, ops, loop, pdict, dlast>>

\* --------------------------------------------------------- lazy tractogram
\* A producer is a zero-argument callable: the closure from_tractogram
\* builds over a Tractogram ("eager", read when called), a generator
\* function over a source ("gen"), or the data_func of create_from ("items").
NoProducer == [kind |-> "none", ref |-> 0]

Producer(kind, ref) == [kind |-> kind, ref |-> ref]

None == -1

\* LazyTractogram.__init__
LazyTractogram_init(streamlines, data_per_streamline, data_per_point, affine_to_rasmm) ==
  [sl |-> streamlines, dps |-> data_per_streamline, dpp |-> data_per_point,
   world |-> affine_to_rasmm, nb |-> None, items |-> NoProducer, toApply |-> Eye4]

\* from_tractogram without the line that takes over the affine
from_tractogram_KeepsDefaultAffine(i) ==
  LET l == LazyTractogram_init(Producer("eager", i), NoKeys, NoKeys, Eye4)
  IN [l EXCEPT !.dps = [k \in DOMAIN eag[i].dps |-> Producer("eager", i)],
               !.dpp = [k \in DOMAIN eag[i].dpp |-> Producer("eager", i)],
               !.nb = Tractogram_len(eag[i])]

\* LazyTractogram.from_tractogram(eag[i])
from_tractogram(i) ==
  LET l == LazyTractogram_init(Producer("eager", i), NoKeys, NoKeys, Eye4)
  IN [l EXCEPT !.dps = [k \in DOMAIN eag[i].dps |-> Producer("eager", i)],
               !.dpp = [k \in DOMAIN eag[i].dpp |-> Producer("eager", i)],
               !.nb = Tractogram_len(eag[i]),
               !.world = get_affine_to_rasmm(eag[i])]

\* LazyTractogram.create_from(data_func): the keys are those of the first
\* item data_func yields, none when it yields nothing
create_from(g) ==
  LET l == LazyTractogram_init(NoProducer, NoKeys, NoKeys, Eye4)
      first == IF Gens[g] = <<>> THEN <<>> ELSE <<Gens[g][1]>>
  IN [l EXCEPT !.items = Producer("items", g),
               !.dps = IF first = <<>> THEN NoKeys
                       ELSE [k \in DOMAIN first[1].data_for_streamline |-> Producer("items", g)],
               !.dpp = IF first = <<>> THEN NoKeys
                       ELSE [k \in DOMAIN first[1].data_for_points |-> Producer("items", g)]]

\* calling a streamlines producer
ProduceStreamlines(p) ==
  IF p.kind = "eager" THEN StreamlinesOf(eag[p.ref])
  ELSE [i \in 1..Len(Gens[p.ref]) |-> Gens[p.ref][i].streamline]

\* calling data_func
ProduceItems(p) == Gens[p.ref]

\* LazyDict.__getitem__(key) of data_per_streamline: calls the stored producer
ProduceDps(p, key) ==
  IF p.kind = "eager" THEN eag[p.ref].dps[key]
  ELSE [i \in 1..Len(Gens[p.ref]) |-> Gens[p.ref][i].data_for_streamline[key]]

\* LazyDict.__getitem__(key) of data_per_point
ProduceDpp(p, key) ==
  IF p.kind = "eager" THEN eag[p.ref].dpp[key]
  ELSE [i \in 1..Len(Gens[p.ref]) |-> Gens[p.ref][i].data_for_points[key]]

\* the streamlines property without the pending affine
LazyTractogram_streamlines_NeverApplies(l) ==
  IF l.sl.kind # "none" THEN ProduceStreamlines(l.sl)
  ELSE IF l.items.kind # "none"
       THEN [i \in 1..Len(ProduceItems(l.items)) |-> ProduceItems(l.items)[i].streamline]
       ELSE <<>>

\* LazyTractogram.streamlines (the property), read to the end
LazyTractogram_streamlines(l) ==
  LET streamlines_gen ==
        IF l.sl.kind # "none" THEN ProduceStreamlines(l.sl)
        ELSE IF l.items.kind # "none"
             THEN [i \in 1..Len(ProduceItems(l.items)) |-> ProduceItems(l.items)[i].streamline]
             ELSE <<>>
  IN IF ~AllcloseEye(l.toApply)
     THEN [i \in 1..Len(streamlines_gen) |-> apply_affine(l.toApply, streamlines_gen[i])]
     ELSE streamlines_gen

\* LazyTractogram.data (the property), read to the end.  The generators of
\* the keys are pulled in lockstep with the streamlines.
LazyTractogram_data(l) ==
  IF l.items.kind # "none" THEN ProduceItems(l.items)
  ELSE LET s == LazyTractogram_streamlines(l)
       IN [i \in 1..Len(s) |->
             [streamline |-> s[i],
              data_for_streamline |-> [k \in DOMAIN l.dps |-> ProduceDps(l.dps[k], k)[i]],
              data_for_points |-> [k \in DOMAIN l.dpp |-> ProduceDpp(l.dpp[k], k)[i]]]]

\* how often one read of the streamlines property calls each kind of producer
StreamlinesCalls(l) ==
  [sl |-> IF l.sl.kind # "none" THEN 1 ELSE 0,
   items |-> IF l.sl.kind = "none" /\ l.items.kind # "none" THEN 1 ELSE 0,
   keys |-> 0]

\* how often one read of the data property calls each kind of producer
DataCalls(l) ==
  IF l.items.kind # "none" THEN [sl |-> 0, items |-> 1, keys |-> 0]
  ELSE [StreamlinesCalls(l) EXCEPT
          !.keys = Cardinality(DOMAIN l.dps) + Cardinality(DOMAIN l.dpp)]

NoCalls == [sl |-> 0, items |-> 0, keys |-> 0]

\* __iter__ that keeps the generators it has run instead of the functions
\* that make them: once exhausted they yield nothing more
LazyTractogram_iter_KeepsGenerator(l) ==
  LET yielded == LazyTractogram_data(l)
  IN [out |-> yielded,
      obj |-> [l EXCEPT !.nb = Len(yielded), !.sl = NoProducer, !.items = NoProducer]]

\* __iter__ that does not keep the count
LazyTractogram_iter_NoCount(l) == [out |-> LazyTractogram_data(l), obj |-> l]

\* LazyTractogram.__iter__ run to exhaustion: the items yielded and the object
\* afterwards
LazyTractogram_iter(l) ==
  LET yielded == LazyTractogram_data(l)
  IN [out |-> yielded, obj |-> [l EXCEPT !.nb = Len(yielded)]]

\* __len__ that counts and does not keep the count
LazyTractogram_len_NoCache(l) ==
  IF l.nb = None
  THEN [n |-> Len(LazyTractogram_streamlines(l)), obj |-> l, warned |-> TRUE,
        calls |-> StreamlinesCalls(l)]
  ELSE [n |-> l.nb, obj |-> l, warned |-> FALSE, calls |-> NoCalls]

\* LazyTractogram.__len__: the count returned, the object afterwards, whether
\* it warned and what it called
LazyTractogram_len(l) ==
  IF l.nb = None
  THEN LET n == Len(LazyTractogram_streamlines(l))
       IN [n |-> n, obj |-> [l EXCEPT !.nb = n], warned |-> TRUE,
           calls |-> StreamlinesCalls(l)]
  ELSE [n |-> l.nb, obj |-> l, warned |-> FALSE, calls |-> NoCalls]

\* LazyTractogram.copy
LazyTractogram_copy(l) ==
  LET tractogram == LazyTractogram_init(l.sl, l.dps, l.dpp, Eye4)
  IN [tractogram EXCEPT !.nb = l.nb, !.items = l.items, !.toApply = l.toApply]

\* apply_affine that works on the receiver itself instead of a copy
LazyTractogram_apply_affine_InPlace(l, affine, lazy) ==
  IF ~lazy THEN [self |-> l, obj |-> l, fresh |-> FALSE, err |-> "ValueError"]
  ELSE IF IsSingular(affine)
       THEN [self |-> l, obj |-> l, fresh |-> FALSE, err |-> "LinAlgError"]
       ELSE LET tractogram == [l EXCEPT !.toApply = Dot(affine, l.toApply),
                                        !.world = Dot(l.world, Inv(affine))]
            IN [self |-> tractogram, obj |-> tractogram, fresh |-> FALSE, err |-> "none"]

\* apply_affine that composes the pending affine on the wrong side
LazyTractogram_apply_affine_PendingWrongSide(l, affine, lazy) ==
  IF ~lazy THEN [self |-> l, obj |-> l, fresh |-> FALSE, err |-> "ValueError"]
  ELSE LET tractogram == [LazyTractogram_copy(l) EXCEPT !.toApply = Dot(l.toApply, affine)]
       IN IF IsSingular(affine)
          THEN [self |-> l, obj |-> l, fresh |-> FALSE, err |-> "LinAlgError"]
          ELSE [self |-> l,
                obj |-> [tractogram EXCEPT !.world = Dot(l.world, Inv(affine))],
                fresh |-> TRUE, err |-> "none"]

\* apply_affine that takes the affine to world of the copy it has just made,
\* not that of the receiver
LazyTractogram_apply_affine_WorldOfCopy(l, affine, lazy) ==
  IF ~lazy THEN [self |-> l, obj |-> l, fresh |-> FALSE, err |-> "ValueError"]
  ELSE LET tractogram == [LazyTractogram_copy(l) EXCEPT !.toApply = Dot(affine, l.toApply)]
       IN IF IsSingular(affine)
          THEN [self |-> l, obj |-> l, fresh |-> FALSE, err |-> "LinAlgError"]
          ELSE [self |-> l,
                obj |-> [tractogram EXCEPT !.world = Dot(tractogram.world, Inv(affine))],
                fresh |-> TRUE, err |-> "none"]

\* apply_affine that does not look at its lazy argument
LazyTractogram_apply_affine_IgnoresLazy(l, affine, lazy) ==
  LET tractogram == [LazyTractogram_copy(l) EXCEPT !.toApply = Dot(affine, l.toApply)]
  IN IF IsSingular(affine)
     THEN [self |-> l, obj |-> l, fresh |-> FALSE, err |-> "LinAlgError"]
     ELSE [self |-> l,
           obj |-> [tractogram EXCEPT !.world = Dot(l.world, Inv(affine))],
           fresh |-> TRUE, err |-> "none"]

\* LazyTractogram.apply_affine(affine, lazy): the receiver afterwards (self),
\* the object returned (obj), whether obj is a new instance (fresh) and the
\* error raised, if any
LazyTractogram_apply_affine(l, affine, lazy) ==
  IF ~lazy THEN [self |-> l, obj |-> l, fresh |-> FALSE, err |-> "ValueError"]
  ELSE LET tractogram == [LazyTractogram_copy(l) EXCEPT !.toApply = Dot(affine, l.toApply)]
       IN IF IsSingular(affine)
          THEN [self |-> l, obj |-> l, fresh |-> FALSE, err |-> "LinAlgError"]
          ELSE [self |-> l,
                obj |-> [tractogram EXCEPT !.world = Dot(l.world, Inv(affine))],
                fresh |-> TRUE, err |-> "none"]

\* LazyTractogram.to_world(lazy)
LazyTractogram_to_world(l, lazy) == LazyTractogram_apply_affine(l, l.world, lazy)

\* how often reading one key of data_per_streamline or data_per_point to the
\* end calls each kind of producer: the stored function once and, for the
\* functions create_from stores, data_func once through it
KeyCalls(p) == [sl |-> 0, items |-> IF p.kind = "items" THEN 1 ELSE 0, keys |-> 1]

\* create_from that takes the first item without catching StopIteration
LazyTractogram_create_from_NoCatch(g) ==
  [obj |-> create_from(g),
   err |-> IF Gens[g] = <<>> THEN "StopIteration" ELSE "none",
   calls |-> [NoCalls EXCEPT !.items = 1],
   pulled |-> Min(1, Len(Gens[g]))]

\* create_from that reads data_func to the end to get at its first item
LazyTractogram_create_from_PullsAll(g) ==
  [obj |-> create_from(g), err |-> "none",
   calls |-> [NoCalls EXCEPT !.items = 1],
   pulled |-> Len(Gens[g])]

\* the call LazyTractogram.create_from(data_func): the object made, the error
\* raised, how often it calls data_func and how many items it pulls.
\* StopIteration from next() on an empty generator is caught.
LazyTractogram_create_from(g) ==
  [obj |-> create_from(g), err |-> "none",
   calls |-> [NoCalls EXCEPT !.items = 1],
   pulled |-> Min(1, Len(Gens[g]))]

\* ------------------------------------------------------------ dictionaries
\* A numpy array: its shape, whether its dtype is object, and its content
\* as nested sequences.  The value handed to __setitem__ is given as the
\* array np.asarray(list(value)) makes of it.
Arr1(m) == [shape |-> <<m>>, object |-> FALSE, val |-> [i \in 1..m |-> 10 * i]]

Arr2(m, p) ==
  [shape |-> <<m, p>>, object |-> FALSE,
   val |-> [i \in 1..m |-> [j \in 1..p |-> 10 * i + j]]]

Arr3(m) ==
  [shape |-> <<m, 1, 1>>, object |-> FALSE, val |-> [i \in 1..m |-> << <<10 * i>> >>]]

\* a list of lists of unequal lengths: a 1-D array of objects
Ragged(m) ==
  [shape |-> <<m>>, object |-> TRUE, val |-> [i \in 1..m |-> [j \in 1..i |-> 10 * i + j]]]

\* The keys of an access: a name, an integer (from 0), a slice lo:hi or a
\* boolean mask.
StrKey(name) == [kind |-> "str", s |-> name, i |-> 0, lo |-> 0, hi |-> 0, mask |-> <<>>]

IntKey(i) == [kind |-> "int", s |-> "", i |-> i, lo |-> 0, hi |-> 0, mask |-> <<>>]

SliceKey(lo, hi) == [kind |-> "slice", s |-> "", i |-> 0, lo |-> lo, hi |-> hi, mask |-> <<>>]

MaskKey(mask) == [kind |-> "mask", s |-> "", i |-> 0, lo |-> 0, hi |-> 0, mask |-> mask]

\* the rows of val at which mask is true
RECURSIVE MaskSelect(_, _)
MaskSelect(val, mask) ==
  IF val = <<>> THEN <<>>
  ELSE (IF Head(mask) THEN <<Head(val)>> ELSE <<>>) \o MaskSelect(Tail(val), Tail(mask))

\* whether v[idx] is defined for an array v of at least one dimension;
\* numpy raises IndexError when it is not
ValidIndex(v, idx) ==
  CASE idx.kind = "int" -> idx.i < v.shape[1]
    [] idx.kind = "slice" -> TRUE
    [] idx.kind = "mask" -> Len(idx.mask) = v.shape[1]
    [] OTHER -> FALSE

\* v[idx]: an integer takes one row and drops the first dimension, a slice
\* or a mask keeps the selected rows
Index(v, idx) ==
  CASE idx.kind = "int" ->
         [shape |-> Tail(v.shape), object |-> v.object, val |-> v.val[idx.i + 1]]
    [] idx.kind = "slice" ->
         [v EXCEPT !.shape = <<Len(PySlice(v.val, idx.lo, idx.hi))>> \o Tail(v.shape),
                   !.val = PySlice(v.val, idx.lo, idx.hi)]
    [] idx.kind = "mask" ->
         [v EXCEPT !.shape = <<Len(MaskSelect(v.val, idx.mask))>> \o Tail(v.shape),
                   !.val = MaskSelect(v.val, idx.mask)]

NoStore == [k \in {} |-> 0]

\* PerArrayDict.__init__(n_elements) with nothing to store yet
PerArrayDict_init(n_elements) == [n_elements |-> n_elements, store |-> NoStore]

\* the first step of PerArrayDict.__setitem__: a 1-D array that is not of
\* objects gets the shape (len, 1)
Reshape1D(value) ==
  IF Len(value.shape) = 1 /\ ~value.object
  THEN [value EXCEPT !.shape = <<Len(value.val), 1>>,
                     !.val = [i \in 1..Len(value.val) |-> <<value.val[i]>>]]
  ELSE value

\* __setitem__ without the check of the number of values
PerArrayDict_setitem_NoCountCheck(d, key, value) ==
  IF Len(Reshape1D(value).shape) # 2 THEN [d |-> d, err |-> "ValueError"]
  ELSE [d |-> [d EXCEPT !.store = (key :> Reshape1D(value)) @@ d.store], err |-> "none"]

\* PerArrayDict.__setitem__(key, value): the dictionary afterwards and the
\* error raised, if any
PerArrayDict_setitem(d, key, value) ==
  IF Len(Reshape1D(value).shape) # 2 THEN [d |-> d, err |-> "ValueError"]
  ELSE IF d.n_elements # None /\ Reshape1D(value).shape[1] # d.n_elements
       THEN [d |-> d, err |-> "ValueError"]
       ELSE [d |-> [d EXCEPT !.store = (key :> Reshape1D(value)) @@ d.store],
             err |-> "none"]

\* SliceableDataDict.__delitem__(key)
SliceableDataDict_delitem(d, key) ==
  IF key \notin DOMAIN d.store THEN [d |-> d, err |-> "KeyError"]
  ELSE [d |-> [d EXCEPT !.store = [k \in DOMAIN d.store \ {key} |-> d.store[k]]],
        err |-> "none"]

NoArray == [shape |-> <<>>, object |-> FALSE, val |-> <<>>]

\* what __getitem__ gives: a stored value (kind "value", got), a new
\* dictionary (kind "dict", dict) or an error
Got(kind, got, dict, err) == [kind |-> kind, got |-> got, dict |-> dict, err |-> err]

\* type(self)(None) filled by new_dict[k] = v[idx] for every stored k, v
Reindexed(d, idx) ==
  LET new_dict == PerArrayDict_init(None)
      set(k) == PerArrayDict_setitem(new_dict, k, Index(d.store[k], idx))
  IN IF \E k \in DOMAIN d.store : ~ValidIndex(d.store[k], idx)
     THEN Got("none", NoArray, new_dict, "IndexError")
     ELSE IF \E k \in DOMAIN d.store : set(k).err # "none"
          THEN Got("none", NoArray, new_dict, "ValueError")
          ELSE Got("dict", NoArray,
                   [new_dict EXCEPT !.store = [k \in DOMAIN d.store |-> set(k).d.store[k]]],
                   "none")

\* __getitem__ that tries the key as an index before it looks it up
SliceableDataDict_getitem_IndexFirst(d, key) ==
  IF key.kind # "str" /\ Reindexed(d, key).err = "none" THEN Reindexed(d, key)
  ELSE IF key \in DOMAIN d.store THEN Got("value", d.store[key], PerArrayDict_init(None), "none")
       ELSE Got("none", NoArray, PerArrayDict_init(None), "KeyError")

\* SliceableDataDict.__getitem__(key) of a PerArrayDict: the stored value when
\* key is a stored key; otherwise key is taken as an index into every value
SliceableDataDict_getitem(d, key) ==
  IF key \in DOMAIN d.store THEN Got("value", d.store[key], PerArrayDict_init(None), "none")
  ELSE Reindexed(d, key)

\* ------------------------------------------------------------------ state
NoRef == [kind |-> "none", id |-> 0]

NoLazy == LazyTractogram_init(NoProducer, NoKeys, NoKeys, Eye4)

NoCall ==
  [op |-> "init", recv |-> 0, prevOp |-> "init", prevRecv |-> 0, arg |-> Eye4, lazy |-> FALSE, ret |-> NoRef,
   err |-> "none", preE |-> EmptyTractogram(Eye4), preL |-> NoLazy,
   out |-> <<>>, n |-> None, calls |-> NoCalls, warned |-> FALSE, key |-> ""]

Call(op, recv) ==
  [NoCall EXCEPT !.op = op, !.recv = recv, !.prevOp = last.op, !.prevRecv = last.recv]

Base(t) == [orig |-> t, applied |-> <<>>]

NoAccess ==
  [op |-> "init", key |-> StrKey(""), value |-> NoArray, pre |-> PerArrayDict_init(None),
   res |-> Got("none", NoArray, PerArrayDict_init(None), "none")]

LazyBase(l) == [w0 |-> l.world, applied |-> <<>>, copied |-> FALSE]

\* LazyTractogram(streamlines, data_per_streamline, data_per_point, affine)
\* with generator functions over the source g
Constructed(g, affine) ==
  LazyTractogram_init(
    Producer("gen", g),
    [k \in GenKeys(g, "data_for_streamline") |-> Producer("gen", g)],
    [k \in GenKeys(g, "data_for_points") |-> Producer("gen", g)],
    affine)

\* the source and the affine_to_rasmm of the constructed LazyTractogram
InitLazy == {<<1, Eye4>>, <<2, Turn>>}

\* the buffer data at the head of the loop, about to start at index start
\* with chunks of size B; orig is the buffer before the loop, visits the
\* number of times each index was written, ranges the [start, end) written
LoopAt(data, affine, B) ==
  [pc |-> "for", data |-> data, orig |-> data, affine |-> affine, B |-> B,
   start |-> 0, visits |-> [k \in 1..Len(data) |-> 0], ranges |-> <<>>]

\* no loop is running
NoLoop == [LoopAt(<<>>, Eye4, 1) EXCEPT !.pc = "none"]

\* One Tractogram and one LazyTractogram have been constructed.
Init ==
  /\ \E t \in InitTractograms : eag = <<t>> /\ hist = <<Base(t)>>
  /\ \E c \in InitLazy :
       /\ lz = <<Constructed(c[1], c[2])>>
       /\ chain = <<LazyBase(Constructed(c[1], c[2]))>>
  /\ last = NoCall
  /\ ops = 0
  /\ loop = NoLoop
  /\ pdict = PerArrayDict_init(None)
  /\ dlast = NoAccess

Tick == ops < MaxOps /\ ops' = ops + 1 /\ UNCHANGED <<loop, pdict, dlast>>

\* ---------------------------------------------------- calls on a Tractogram
\* t.apply_affine(affine) on the Tractogram i
ApplyAffine(i, affine) ==
  /\ Tick
  /\ LET r == Tractogram_apply_affine(eag[i], affine)
     IN /\ eag' = [eag EXCEPT ![i] = r.t]
        /\ hist' = [hist EXCEPT ![i] =
                      IF r.err = "none"
                      THEN [@ EXCEPT !.applied = Append(@, affine)]
                      ELSE Base(r.t)]
        /\ last' = [Call("Tractogram.apply_affine", i) EXCEPT
                      !.arg = affine, !.preE = eag[i], !.err = r.err,
                      !.ret = IF r.err = "none" THEN [kind |-> "eager", id |-> i] ELSE NoRef]
  /\ UNCHANGED <<lz, chain>>

\* the lazy branch of Tractogram.apply_affine and Tractogram.to_world:
\* LazyTractogram.from_tractogram(self).apply_affine(affine)
LazyBranch(op, i, affine) ==
  LET r == LazyTractogram_apply_affine(from_tractogram(i), affine, TRUE)
      made == r.err = "none"
  IN /\ lz' = IF made THEN Append(lz, r.obj) ELSE lz
     /\ chain' = IF made
                 THEN Append(chain, [LazyBase(from_tractogram(i)) EXCEPT !.applied = <<affine>>])
                 ELSE chain
     /\ last' = [Call(op, i) EXCEPT
                   !.arg = affine, !.lazy = TRUE, !.preE = eag[i], !.err = r.err,
                   !.ret = IF made THEN [kind |-> "lazy", id |-> Len(lz) + 1] ELSE NoRef]
     /\ UNCHANGED <<eag, hist>>

\* t.apply_affine(affine, lazy=True)
ApplyAffineLazy(i, affine) ==
  /\ Tick
  /\ Len(lz) < MaxLazy
  /\ LazyBranch("Tractogram.apply_affine", i, affine)

\* t.to_world()
ToWorld(i) ==
  /\ Tick
  /\ LET affine == eag[i].aff
         r == Tractogram_apply_affine(eag[i], affine)
     IN /\ eag' = [eag EXCEPT ![i] = r.t]
        /\ hist' = [hist EXCEPT ![i] =
                      IF r.err = "none"
                      THEN [@ EXCEPT !.applied = Append(@, affine)]
                      ELSE Base(r.t)]
        /\ last' = [Call("Tractogram.to_world", i) EXCEPT
                      !.arg = affine, !.preE = eag[i], !.err = r.err,
                      !.ret = IF r.err = "none" THEN [kind |-> "eager", id |-> i] ELSE NoRef]
  /\ UNCHANGED <<lz, chain>>

\* t.to_world(lazy=True)
ToWorldLazy(i) ==
  /\ Tick
  /\ Len(lz) < MaxLazy
  /\ LazyBranch("Tractogram.to_world", i, eag[i].aff)

\* t.copy()
Copy(i) ==
  /\ Tick
  /\ Len(eag) < MaxEager
  /\ eag' = Append(eag, Tractogram_copy(eag[i]))
  /\ hist' = Append(hist, Base(Tractogram_copy(eag[i])))
  /\ last' = [Call("Tractogram.copy", i) EXCEPT
                !.preE = eag[i], !.ret = [kind |-> "eager", id |-> Len(eag) + 1]]
  /\ UNCHANGED <<lz, chain>>

\* m = t.get_affine_to_rasmm(); m[...] = written
GetAffine(i, written) ==
  /\ Tick
  /\ eag' = [eag EXCEPT ![i].aff = WriteToReturnedAffine(@, written)]
  /\ last' = [Call("Tractogram.get_affine_to_rasmm", i) EXCEPT
                !.arg = get_affine_to_rasmm(eag[i]), !.preE = eag[i]]
  /\ UNCHANGED <<lz, hist, chain>>

\* t[lo:hi]
Slice(i, lo, hi) ==
  LET r == Tractogram_getitem_slice(eag[i], lo, hi)
      made == r.err = "none"
  IN /\ Tick
     /\ Len(eag) < MaxEager
     /\ eag' = IF made THEN Append(eag, r.obj) ELSE eag
     /\ hist' = IF made THEN Append(hist, Base(r.obj)) ELSE hist
     /\ last' = [Call("Tractogram.__getitem__", i) EXCEPT
                   !.preE = eag[i], !.err = r.err,
                   !.ret = IF made THEN [kind |-> "eager", id |-> Len(eag) + 1] ELSE NoRef]
     /\ UNCHANGED <<lz, chain>>

\* t.streamlines = value
SetStreamlines(i, value) ==
  /\ Tick
  /\ eag' = [eag EXCEPT ![i] = Tractogram_set_streamlines(@, value)]
  /\ hist' = [hist EXCEPT ![i] = Base(Tractogram_set_streamlines(eag[i], value))]
  /\ last' = [Call("Tractogram.streamlines = value", i) EXCEPT !.preE = eag[i]]
  /\ UNCHANGED <<lz, chain>>

\* t.data_per_streamline[key] = value
SetDataPerStreamline(i, key, value) ==
  LET r == Tractogram_set_data_per_streamline(eag[i], key, value)
  IN /\ Tick
     /\ eag' = [eag EXCEPT ![i] = r.t]
     /\ hist' = [hist EXCEPT ![i] = Base(r.t)]
     /\ last' = [Call("Tractogram.data_per_streamline[key] = value", i) EXCEPT
                   !.key = key, !.preE = eag[i], !.err = r.err]
     /\ UNCHANGED <<lz, chain>>

\* ------------------------------------------------- making a LazyTractogram
NewLazy(op, l) ==
  /\ Tick
  /\ Len(lz) < MaxLazy
  /\ lz' = Append(lz, l)
  /\ chain' = Append(chain, LazyBase(l))
  /\ UNCHANGED <<eag, hist>>

\* LazyTractogram.from_tractogram(t)
FromTractogram(i) ==
  /\ NewLazy("from_tractogram", from_tractogram(i))
  /\ last' = [Call("LazyTractogram.from_tractogram", i) EXCEPT
                !.preE = eag[i], !.ret = [kind |-> "lazy", id |-> Len(lz) + 1]]

\* LazyTractogram.create_from(data_func) with data_func over the source g;
\* it calls data_func once, for the first item
CreateFrom(g) ==
  LET r == LazyTractogram_create_from(g)
      made == r.err = "none"
  IN /\ Tick
     /\ Len(lz) < MaxLazy
     /\ lz' = IF made THEN Append(lz, r.obj) ELSE lz
     /\ chain' = IF made THEN Append(chain, LazyBase(r.obj)) ELSE chain
     /\ last' = [Call("LazyTractogram.create_from", g) EXCEPT
                   !.ret = IF made THEN [kind |-> "lazy", id |-> Len(lz) + 1] ELSE NoRef,
                   !.err = r.err, !.calls = r.calls, !.n = r.pulled]
     /\ UNCHANGED <<eag, hist>>

\* ------------------------------------------------ calls on a LazyTractogram
\* what apply_affine and to_world do to the objects
LazyResult(op, j, affine, lazy, r) ==
  /\ lz' = IF r.err # "none" THEN lz
           ELSE IF r.fresh THEN Append([lz EXCEPT ![j] = r.self], r.obj)
           ELSE [lz EXCEPT ![j] = r.obj]
  /\ chain' = IF r.err # "none" THEN chain
              ELSE IF r.fresh
              THEN Append(chain, [chain[j] EXCEPT !.applied = Append(@, affine)])
              ELSE [chain EXCEPT ![j].applied = Append(@, affine)]
  /\ last' = [Call(op, j) EXCEPT
                !.arg = affine, !.lazy = lazy, !.preL = lz[j], !.err = r.err,
                !.ret = IF r.err # "none" THEN NoRef
                        ELSE IF r.fresh THEN [kind |-> "lazy", id |-> Len(lz) + 1]
                        ELSE [kind |-> "lazy", id |-> j]]
  /\ UNCHANGED <<eag, hist>>

\* l.apply_affine(affine)
LazyApplyAffine(j, affine) ==
  /\ Tick
  /\ Len(lz) < MaxLazy
  /\ LazyResult("LazyTractogram.apply_affine", j, affine, TRUE,
                LazyTractogram_apply_affine(lz[j], affine, TRUE))

\* l.apply_affine(affine, lazy=False)
LazyApplyAffineNotLazy(j, affine) ==
  /\ Tick
  /\ LazyResult("LazyTractogram.apply_affine", j, affine, FALSE,
                LazyTractogram_apply_affine(lz[j], affine, FALSE))

\* l.to_world()
LazyToWorld(j) ==
  /\ Tick
  /\ Len(lz) < MaxLazy
  /\ LazyResult("LazyTractogram.to_world", j, lz[j].world, TRUE,
                LazyTractogram_to_world(lz[j], TRUE))

\* l.to_world(lazy=False)
LazyToWorldNotLazy(j) ==
  /\ Tick
  /\ LazyResult("LazyTractogram.to_world", j, lz[j].world, FALSE,
                LazyTractogram_to_world(lz[j], FALSE))

\* l.copy()
LazyCopy(j) ==
  /\ Tick
  /\ Len(lz) < MaxLazy
  /\ lz' = Append(lz, LazyTractogram_copy(lz[j]))
  /\ chain' = Append(chain, [chain[j] EXCEPT !.copied = TRUE])
  /\ last' = [Call("LazyTractogram.copy", j) EXCEPT
                !.preL = lz[j], !.ret = [kind |-> "lazy", id |-> Len(lz) + 1]]
  /\ UNCHANGED <<eag, hist>>

\* len(l)
LazyLen(j) ==
  /\ Tick
  /\ LET r == LazyTractogram_len(lz[j])
     IN /\ lz' = [lz EXCEPT ![j] = r.obj]
        /\ last' = [Call("LazyTractogram.__len__", j) EXCEPT
                      !.preL = lz[j], !.n = r.n, !.warned = r.warned, !.calls = r.calls]
  /\ UNCHANGED <<eag, hist, chain>>

\* for item in l: ... run to the end
LazyIter(j) ==
  /\ Tick
  /\ LET r == LazyTractogram_iter(lz[j])
     IN /\ lz' = [lz EXCEPT ![j] = r.obj]
        /\ last' = [Call("LazyTractogram.__iter__", j) EXCEPT
                      !.preL = lz[j], !.out = r.out, !.n = Len(r.out),
                      !.calls = DataCalls(lz[j])]
  /\ UNCHANGED <<eag, hist, chain>>

\* for item in l: ... left after n items, before the generator is exhausted
LazyIterPartial(j, n) ==
  /\ Tick
  /\ n <= Len(LazyTractogram_data(lz[j]))
  /\ last' = [Call("LazyTractogram.__iter__ (partial)", j) EXCEPT
                !.preL = lz[j], !.out = SubSeq(LazyTractogram_data(lz[j]), 1, n),
                !.n = n, !.calls = DataCalls(lz[j])]
  /\ UNCHANGED <<eag, lz, hist, chain>>

\* list(l.streamlines)
LazyStreamlines(j) ==
  /\ Tick
  /\ last' = [Call("LazyTractogram.streamlines", j) EXCEPT
                !.preL = lz[j], !.out = LazyTractogram_streamlines(lz[j]),
                !.preE = IF lz[j].sl.kind = "eager" THEN eag[lz[j].sl.ref]
                         ELSE EmptyTractogram(Eye4),
                !.calls = StreamlinesCalls(lz[j])]
  /\ UNCHANGED <<eag, lz, hist, chain>>

\* m = l.get_affine_to_rasmm(); m[...] = written
LazyGetAffine(j, written) ==
  /\ Tick
  /\ lz' = [lz EXCEPT ![j].world = WriteToReturnedAffine(@, written)]
  /\ last' = [Call("LazyTractogram.get_affine_to_rasmm", j) EXCEPT
                !.arg = lz[j].world, !.preL = lz[j]]
  /\ UNCHANGED <<eag, hist, chain>>

\* list(l.data_per_streamline[key])
LazyDataPerStreamline(j, key) ==
  /\ Tick
  /\ last' = [Call("LazyTractogram.data_per_streamline[key]", j) EXCEPT
                !.key = key, !.preL = lz[j], !.out = ProduceDps(lz[j].dps[key], key),
                !.calls = KeyCalls(lz[j].dps[key])]
  /\ UNCHANGED <<eag, lz, hist, chain>>

\* list(l.data_per_point[key])
LazyDataPerPoint(j, key) ==
  /\ Tick
  /\ last' = [Call("LazyTractogram.data_per_point[key]", j) EXCEPT
                !.key = key, !.preL = lz[j], !.out = ProduceDpp(lz[j].dpp[key], key),
                !.calls = KeyCalls(lz[j].dpp[key])]
  /\ UNCHANGED <<eag, lz, hist, chain>>

\* what a caller writes into the matrix get_affine_to_rasmm returned
Written == {Flat}

\* the affine a caller passes with lazy=False to a LazyTractogram
RejectedAffines == {Shift123}

\* how many items a caller pulls before leaving an iteration
PartialCounts == {1}

\* the affines a caller moves a Tractogram by, in place and lazily
Moves == {Shift123, Turn, Flat}

LazyMoves == {Shift123, Flat}

Next ==
  \/ \E i \in 1..Len(eag) : \E a \in Moves : ApplyAffine(i, a)
  \/ \E i \in 1..Len(eag) : \E a \in LazyMoves : ApplyAffineLazy(i, a)
  \/ \E i \in 1..Len(eag) : ToWorld(i)
  \/ \E i \in 1..Len(eag) : ToWorldLazy(i)
  \/ \E i \in 1..Len(eag) : Copy(i)
  \/ \E i \in 1..Len(eag) : FromTractogram(i)
  \/ \E g \in GenIds : CreateFrom(g)
  \/ \E j \in 1..Len(lz) : \E a \in Affines : LazyApplyAffine(j, a)
  \/ \E j \in 1..Len(lz) : \E a \in RejectedAffines : LazyApplyAffineNotLazy(j, a)
  \/ \E j \in 1..Len(lz) : LazyToWorld(j)
  \/ \E j \in 1..Len(lz) : LazyToWorldNotLazy(j)
  \/ \E j \in 1..Len(lz) : LazyCopy(j)
  \/ \E j \in 1..Len(lz) : LazyLen(j)
  \/ \E j \in 1..Len(lz) : LazyIter(j)
  \/ \E j \in 1..Len(lz) : \E n \in PartialCounts : LazyIterPartial(j, n)
  \/ \E j \in 1..Len(lz) : LazyStreamlines(j)

Spec == Init /\ [][Next]_vars

\* ------------------------------------ tractograms being made, moved and read
\* Callers read the affine and the data of single keys of tractograms that
\* are made and moved in between.
NextRead ==
  \/ \E i \in 1..Len(eag) : \E w \in Written : GetAffine(i, w)
  \/ \E j \in 1..Len(lz) : \E w \in Written : LazyGetAffine(j, w)
  \/ \E j \in 1..Len(lz) : \E key \in DOMAIN lz[j].dps : LazyDataPerStreamline(j, key)
  \/ \E j \in 1..Len(lz) : \E key \in DOMAIN lz[j].dpp : LazyDataPerPoint(j, key)
  \/ \E g \in GenIds : CreateFrom(g)
  \/ \E i \in 1..Len(eag) : FromTractogram(i)
  \/ \E i \in 1..Len(eag) : \E a \in Invertibles : ApplyAffine(i, a)
  \/ \E j \in 1..Len(lz) : \E a \in Invertibles : LazyApplyAffine(j, a)
  \/ \E j \in 1..Len(lz) : LazyIter(j)

SpecRead == Init /\ [][NextRead]_vars

\* ------------------------------------- the data of a Tractogram being edited
\* the slices a caller takes
Slices == {<<0, 1>>, <<1, 3>>}

\* the ArraySequences a caller assigns to t.streamlines
NewStreamlines ==
  {[data |-> <<P2>>, lengths |-> <<1>>],
   [data |-> <<P1, P0, P2>>, lengths |-> <<1, 2>>]}

\* the keys and values a caller puts into t.data_per_streamline
NewKeys == {"mean", "torsion"}

NewValues == {<<9>>, <<9, 10>>}

\* A Tractogram is sliced, copied, moved and edited.
NextData ==
  \/ \E i \in 1..Len(eag) : \E a \in Invertibles : ApplyAffine(i, a)
  \/ \E i \in 1..Len(eag) : Copy(i)
  \/ \E i \in 1..Len(eag) : \E sl \in Slices : Slice(i, sl[1], sl[2])
  \/ \E i \in 1..Len(eag) : \E v \in NewStreamlines : SetStreamlines(i, v)
  \/ \E i \in 1..Len(eag) : \E key \in NewKeys : \E v \in NewValues :
        SetDataPerStreamline(i, key, v)

SpecData == Init /\ [][NextData]_vars

\* ------------------------------------------------- one PerArrayDict in use
\* the keys a caller stores under and deletes
Keys == {StrKey("mean"), StrKey("fa"), IntKey(0)}

\* the values a caller stores
Values ==
  {Arr1(m) : m \in 0..MaxN + 1}
    \cup {Arr2(m, p) : m \in 0..MaxN + 1, p \in 1..2}
    \cup {Arr3(m) : m \in 1..MaxN}
    \cup {Ragged(2)}

\* the indices a caller accesses the dictionary with
Indices ==
  {IntKey(i) : i \in 0..MaxN}
    \cup {SliceKey(0, 1), SliceKey(1, MaxN + 1)}
    \cup {MaskKey(m) : m \in [1..MaxN -> BOOLEAN]}

\* d = PerArrayDict(n)
InitDict ==
  /\ eag = <<>> /\ lz = <<>> /\ hist = <<>> /\ chain = <<>>
  /\ last = NoCall
  /\ ops = 0
  /\ loop = NoLoop
  /\ \E n \in 0..MaxN : pdict = PerArrayDict_init(n)
  /\ dlast = NoAccess

\* d[key] = value
DictSetItem(key, value) ==
  LET r == PerArrayDict_setitem(pdict, key, value)
  IN /\ pdict' = r.d
     /\ dlast' = [NoAccess EXCEPT !.op = "__setitem__", !.key = key, !.value = value,
                                  !.pre = pdict, !.res.err = r.err]
     /\ UNCHANGED <<eag, lz, hist, chain, last, ops, loop>>

\* del d[key]
DictDelItem(key) ==
  LET r == SliceableDataDict_delitem(pdict, key)
  IN /\ pdict' = r.d
     /\ dlast' = [NoAccess EXCEPT !.op = "__delitem__", !.key = key,
                                  !.pre = pdict, !.res.err = r.err]
     /\ UNCHANGED <<eag, lz, hist, chain, last, ops, loop>>

\* d[key]
DictGetItem(key) ==
  /\ dlast' = [NoAccess EXCEPT !.op = "__getitem__", !.key = key, !.pre = pdict,
                               !.res = SliceableDataDict_getitem(pdict, key)]
  /\ UNCHANGED <<eag, lz, hist, chain, last, ops, loop, pdict>>

NextDict ==
  \/ \E key \in Keys : \E value \in Values : DictSetItem(key, value)
  \/ \E key \in Keys : DictDelItem(key)
  \/ \E key \in Keys \cup Indices : DictGetItem(key)

SpecDict == InitDict /\ [][NextDict]_vars

\* ------------------------------------- the chunked transform, pass by pass
\* a buffer of n points, no two alike
Buffer(n) == [k \in 1..n |-> <<k, k * k, 1>>]

\* the affines the loop is run with
ChunkAffines == {Shift123, Turn, Flat}

\* Tractogram.apply_affine has reached its loop, with a buffer of n >= 1
\* points (an empty tractogram returns before the loop)
InitChunks ==
  /\ eag = <<>> /\ lz = <<>> /\ hist = <<>> /\ chain = <<>>
  /\ last = NoCall
  /\ ops = 0
  /\ pdict = PerArrayDict_init(None)
  /\ dlast = NoAccess
  /\ \E n \in 1..MaxPoints : \E B \in 1..MaxChunk : \E affine \in ChunkAffines :
       loop = LoopAt(Buffer(n), affine, B)

\* for start in range(0, len(_data), B): one pass through the body
ChunkStep ==
  /\ loop.pc = "for"
  /\ loop.start < Len(loop.data)
  /\ loop' = [loop EXCEPT
                !.data = OneChunk(loop.data, loop.affine, loop.start, loop.B),
                !.start = loop.start + loop.B,
                !.visits = [k \in 1..Len(loop.data) |->
                              IF k > loop.start /\ k <= loop.start + loop.B
                              THEN loop.visits[k] + 1 ELSE loop.visits[k]],
                !.ranges = Append(loop.ranges,
                                  <<loop.start, Min(loop.start + loop.B, Len(loop.data))>>)]
  /\ UNCHANGED <<eag, lz, hist, chain, last, ops, pdict, dlast>>

\* the range is exhausted: the loop is left
ChunkLoopExit ==
  /\ loop.pc = "for"
  /\ loop.start >= Len(loop.data)
  /\ loop' = [loop EXCEPT !.pc = "done"]
  /\ UNCHANGED <<eag, lz, hist, chain, last, ops, pdict, dlast>>

NextChunks == ChunkStep \/ ChunkLoopExit

SpecChunks == InitChunks /\ [][NextChunks]_vars

\* ----------------------------------------------------------------- claims
IsEagerCall(op) == last.op = op /\ ~last.lazy

SelfRef == [kind |-> "eager", id |-> last.recv]

\* C1: apply_affine(A, lazy=False) on a Tractogram with at least one
\* streamline and an invertible A replaces every point p of every streamline
\* by A(p), sets the stored affine to W . A^-1 and returns the receiver; the
\* translation by (1, 2, 3) moves every point by exactly (1, 2, 3) and turns
\* an identity W into the translation by (-1, -2, -3).
C1_EagerApplyAffine ==
  (/\ IsEagerCall("Tractogram.apply_affine")
   /\ Tractogram_len(last.preE) >= 1
   /\ ~IsSingular(last.arg))
  => LET pre == last.preE
         t == eag[last.recv]
     IN /\ last.err = "none"
        /\ last.ret = SelfRef
        /\ Tractogram_len(t) = Tractogram_len(pre)
        /\ \A i \in 1..Tractogram_len(pre) :
             /\ Len(StreamlineAt(t, i)) = Len(StreamlineAt(pre, i))
             /\ \A k \in 1..Len(StreamlineAt(pre, i)) :
                  StreamlineAt(t, i)[k] = ApplyPt(last.arg, StreamlineAt(pre, i)[k])
        /\ t.aff = Dot(pre.aff, Inv(last.arg))
        /\ Dot(t.aff, last.arg) = pre.aff
        /\ t.dps = pre.dps /\ t.dpp = pre.dpp
        /\ last.arg = Shift123 =>
             /\ \A k \in 1..Len(pre.data) :
                  t.data[k] = <<pre.data[k][1] + 1, pre.data[k][2] + 2, pre.data[k][3] + 3>>
             /\ pre.aff = Eye4 => t.aff = Translation(-1, -2, -3)

\* C1 witness: the translation by (1, 2, 3) was applied in place to a
\* tractogram of two streamlines whose stored affine was the identity.
C1_Witness ==
  /\ IsEagerCall("Tractogram.apply_affine")
  /\ last.arg = Shift123
  /\ Tractogram_len(last.preE) = 2
  /\ last.preE.aff = Eye4
  /\ eag[last.recv].data # last.preE.data

\* C2: apply_affine(A) then apply_affine(B), both in place, leave the points
\* and the stored affine that one apply_affine(B . A) gives on a fresh copy
\* of the original tractogram (stated for every list of invertible affines
\* applied in place since the original, two of them in particular).
C2_EagerComposes ==
  \A i \in 1..Len(eag) :
    LET once == Tractogram_apply_affine(Tractogram_copy(hist[i].orig),
                                        Compose(hist[i].applied))
    IN /\ once.err = "none"
       /\ eag[i].data = once.t.data
       /\ eag[i].lengths = once.t.lengths
       /\ eag[i].aff = once.t.aff

\* C2 witness: two affines that do not commute were applied in place, one
\* after the other, to a tractogram that has streamlines.
C2_Witness ==
  \E i \in 1..Len(eag) :
    /\ Len(hist[i].applied) = 2
    /\ Tractogram_len(eag[i]) >= 1
    /\ Dot(hist[i].applied[1], hist[i].applied[2])
         # Dot(hist[i].applied[2], hist[i].applied[1])
    /\ eag[i].data # hist[i].orig.data

\* C3: after one to_world() the tractogram reports the identity as its
\* affine to world: the Tractogram itself after to_world(lazy=False), with
\* any number of streamlines, and the LazyTractogram that to_world() of a
\* LazyTractogram returns.
C3_ToWorldGivesIdentity ==
  /\ IsEagerCall("Tractogram.to_world") => get_affine_to_rasmm(eag[last.recv]) = Eye4
  /\ (last.op = "LazyTractogram.to_world" /\ last.lazy /\ last.err = "none")
       => lz[last.ret.id].world = Eye4

\* C4: apply_affine(A, lazy=False) on a Tractogram with no streamline does
\* nothing, whatever A is: it returns the receiver, and the streamlines, the
\* data dictionaries and the stored affine stay as they were.
C4_EmptyApplyIsNoOp ==
  (IsEagerCall("Tractogram.apply_affine") /\ Tractogram_len(last.preE) = 0)
  => /\ last.err = "none"
     /\ last.ret = SelfRef
     /\ eag[last.recv] = last.preE

\* C4 witness: an affine other than the identity was applied in place to a
\* tractogram with no streamline whose stored affine is not the identity.
C4_Witness ==
  /\ IsEagerCall("Tractogram.apply_affine")
  /\ Tractogram_len(last.preE) = 0
  /\ last.arg = Turn
  /\ last.preE.aff = Turn

\* two lengths equal up to the tolerance of np.allclose
Close(a, b) == Abs(a - b) <= Atol

\* two lists of streamlines of the same shape, coordinates equal up to the
\* tolerance
CloseStreamlines(s, u) ==
  /\ Len(s) = Len(u)
  /\ \A i \in 1..Len(s) :
       /\ Len(s[i]) = Len(u[i])
       /\ \A k \in 1..Len(s[i]) : \A c \in 1..3 : Close(s[i][k][c], u[i][k][c])

\* two affines with the same 3x3 block, translations equal up to the
\* tolerance
CloseAffines(a, b) ==
  /\ \A i \in 1..4 : \A j \in 1..3 : a[i][j] = b[i][j]
  /\ \A i \in 1..3 : Close(a[i][4], b[i][4])

\* C5: the LazyTractogram that t.apply_affine(A, lazy=True) returns yields,
\* read to the end, the streamlines of t.copy().apply_affine(A, lazy=False)
\* in the same order and reports the same affine to world, for every
\* Tractogram t, empty ones included, and every invertible A (equality taken
\* up to the tolerance of np.allclose).
C5_LazyMatchesEager ==
  (/\ last.op = "Tractogram.apply_affine" /\ last.lazy
   /\ ~IsSingular(last.arg))
  => LET l == lz[last.ret.id]
         e == Tractogram_apply_affine(Tractogram_copy(last.preE), last.arg).t
     IN /\ last.err = "none"
        /\ CloseStreamlines(LazyTractogram_streamlines(l), StreamlinesOf(e))
        /\ CloseAffines(l.world, get_affine_to_rasmm(e))

IsLazyAffineCall ==
  /\ last.op \in {"LazyTractogram.apply_affine", "LazyTractogram.to_world"}
  /\ last.lazy
  /\ last.err = "none"

\* C6: apply_affine(A) and to_world() of a LazyTractogram return a new
\* instance and change no existing one: the receiver and every other
\* LazyTractogram keep their pending affine, affine to world, cached count,
\* producers and dictionaries, and the sources stay as they are, so no chain
\* of such calls on the returned instances changes what an earlier instance
\* yields or reports.
C6_LazyApplyCopies ==
  [][(/\ last'.op \in {"LazyTractogram.apply_affine", "LazyTractogram.to_world"}
      /\ last'.lazy
      /\ last'.err = "none"
      /\ ops' = ops + 1)
     => /\ Len(lz') = Len(lz) + 1
        /\ SubSeq(lz', 1, Len(lz)) = lz
        /\ last'.ret = [kind |-> "lazy", id |-> Len(lz) + 1]
        /\ last'.ret.id # last'.recv
        /\ eag' = eag]_vars

\* C6 witness: apply_affine was called on the instance an earlier
\* apply_affine returned, and the first receiver is still what the
\* constructor made, with no pending affine.
C6_Witness ==
  /\ IsLazyAffineCall
  /\ last.prevOp = "LazyTractogram.apply_affine"
  /\ last.prevRecv = 1
  /\ last.recv = 2
  /\ last.ret.id = 3
  /\ lz[1].toApply = Eye4
  /\ lz[2].toApply = Turn
  /\ lz[2] = last.preL

\* C7: apply_affine(A) of a LazyTractogram with pending affine P and affine
\* to world W returns one with pending affine A . P and affine to world
\* W . A^-1; after apply_affine(A1), ..., apply_affine(An) from an identity
\* pending affine the pending affine is An . ... . A1.
C7_LazyPendingComposes ==
  /\ IsLazyAffineCall =>
       /\ lz[last.ret.id].toApply = Dot(last.arg, last.preL.toApply)
       /\ lz[last.ret.id].world = Dot(last.preL.world, Inv(last.arg))
  /\ \A j \in 1..Len(lz) : lz[j].toApply = Compose(chain[j].applied)

\* C7 witness: two affines that do not commute were applied one after the
\* other, starting from an identity pending affine.
C7_Witness ==
  /\ IsLazyAffineCall
  /\ Len(chain[last.ret.id].applied) = 2
  /\ Dot(chain[last.ret.id].applied[1], chain[last.ret.id].applied[2])
       # Dot(chain[last.ret.id].applied[2], chain[last.ret.id].applied[1])
  /\ last.preL.world # Eye4

\* what the producer of the streamlines of l yields
Produced(l) ==
  IF l.sl.kind = "eager" THEN StreamlinesOf(eag[l.sl.ref])
  ELSE IF l.sl.kind = "gen" \/ l.items.kind = "items"
       THEN LET g == IF l.sl.kind = "gen" THEN l.sl.ref ELSE l.items.ref
            IN [i \in 1..Len(Gens[g]) |-> Gens[g][i].streamline]
       ELSE <<>>

\* what C8 says of one read of the streamlines property, the pending affine
\* counting as the identity when isIdentity holds
StreamlinesReadPath(isIdentity) ==
  last.op = "LazyTractogram.streamlines"
  => LET l == last.preL
         produced == Produced(l)
     IN /\ Len(last.out) = Len(produced)
        /\ \A i \in 1..Len(produced) :
             IF isIdentity
             THEN last.out[i] = produced[i]
             ELSE /\ Len(last.out[i]) = Len(produced[i])
                  /\ \A k \in 1..Len(produced[i]) :
                       last.out[i][k] = ApplyPt(l.toApply, produced[i][k])
        /\ l.sl.kind = "eager" => eag[l.sl.ref] = last.preE
        /\ lz[last.recv] = l

\* C8 as claimed: the streamlines property yields one array per produced
\* streamline, in order: the pending affine applied to the produced array
\* when the pending affine is not the identity, the produced array itself
\* when it is; the arrays of the source are not modified.
C8_StreamlinesAppliesPending == StreamlinesReadPath(last.preL.toApply = Eye4)

\* C8 amended: as claimed, with "is the identity" read as np.allclose to the
\* identity: a pending affine within the tolerance of the identity is not
\* applied.
C8_StreamlinesAppliesUnlessClose == StreamlinesReadPath(AllcloseEye(last.preL.toApply))

\* C8 witness: the streamlines of a LazyTractogram over a Tractogram were
\* read with a pending quarter turn, and came out moved.
C8_Witness ==
  /\ last.op = "LazyTractogram.streamlines"
  /\ last.preL.toApply = Turn
  /\ last.preL.sl.kind = "eager"
  /\ Len(last.out) = 2
  /\ last.out # Produced(last.preL)

\* C9: LazyTractogram.from_tractogram(t), iterated to the end, yields as
\* many items as iterating t, the i-th with the streamline, the
\* per-streamline values and the per-point values of the i-th item of t; its
\* length is len(t), obtained without calling a producer, and its affine to
\* world is that of t.
C9_FromTractogramRoundTrip ==
  last.op = "LazyTractogram.from_tractogram"
  => LET l == lz[last.ret.id]
         t == eag[last.recv]
         items == LazyTractogram_iter(l).out
     IN /\ Len(items) = Len(Tractogram_iter(t))
        /\ \A i \in 1..Len(items) :
             /\ items[i].streamline = Tractogram_iter(t)[i].streamline
             /\ items[i].data_for_streamline = Tractogram_iter(t)[i].data_for_streamline
             /\ items[i].data_for_points = Tractogram_iter(t)[i].data_for_points
        /\ LazyTractogram_len(l).n = Tractogram_len(t)
        /\ LazyTractogram_len(l).calls = NoCalls
        /\ ~LazyTractogram_len(l).warned
        /\ l.world = get_affine_to_rasmm(t)

\* C9 witness: from_tractogram was called on a tractogram of two streamlines
\* with per-streamline and per-point data, moved before by a quarter turn.
C9_Witness ==
  /\ last.op = "LazyTractogram.from_tractogram"
  /\ Tractogram_len(eag[last.recv]) = 2
  /\ hist[last.recv].applied = <<Turn>>
  /\ eag[last.recv].aff # Eye4
  /\ DOMAIN lz[last.ret.id].dps = {"mean"}
  /\ DOMAIN lz[last.ret.id].dpp = {"fa"}

\* C10: len() of a LazyTractogram whose count is unknown calls the producer
\* of its streamlines exactly once, warns, returns the number of streamlines
\* produced and keeps it; with a known count (kept by an earlier len(), or
\* taken over by from_tractogram) it returns that count, calls no producer,
\* does not warn and changes nothing.
C10_LenCountsOnce ==
  last.op = "LazyTractogram.__len__"
  => IF last.preL.nb = None
     THEN /\ last.warned
          /\ last.calls.sl + last.calls.items = 1
          /\ last.calls.keys = 0
          /\ last.n = Len(Produced(last.preL))
          /\ lz[last.recv] = [last.preL EXCEPT !.nb = last.n]
     ELSE /\ ~last.warned
          /\ last.calls = NoCalls
          /\ last.n = last.preL.nb
          /\ lz[last.recv] = last.preL

\* C10 witness: len() was called twice in a row on the constructed
\* LazyTractogram of two streamlines; the second call found the count kept.
C10_Witness ==
  /\ last.op = "LazyTractogram.__len__"
  /\ last.prevOp = "LazyTractogram.__len__"
  /\ last.recv = 1
  /\ last.prevRecv = 1
  /\ last.preL.nb = 2
  /\ last.n = 2

\* the calls that are made on a LazyTractogram
LazyOps ==
  {"LazyTractogram.apply_affine", "LazyTractogram.to_world", "LazyTractogram.copy",
   "LazyTractogram.__len__", "LazyTractogram.__iter__",
   "LazyTractogram.__iter__ (partial)", "LazyTractogram.streamlines",
   "LazyTractogram.get_affine_to_rasmm", "LazyTractogram.data_per_streamline[key]",
   "LazyTractogram.data_per_point[key]"}

\* C11: a LazyTractogram never becomes exhausted.  No full or partial
\* iteration, len(), apply_affine, to_world, copy or read of streamlines
\* changes the item sequence that an iteration of any existing LazyTractogram
\* yields, so an iteration after any sequence of them yields what the first
\* one yielded; every full iteration calls the producer anew (once) and
\* yields that complete sequence from its first item.
C11_IterationRestarts ==
  [][(ops' = ops + 1 /\ last'.op \in LazyOps)
     => /\ \A j \in 1..Len(lz) : LazyTractogram_data(lz'[j]) = LazyTractogram_data(lz[j])
        /\ last'.op = "LazyTractogram.__iter__"
           => /\ last'.out = LazyTractogram_data(lz[last'.recv])
              /\ last'.n = Len(last'.out)
              /\ last'.calls.sl + last'.calls.items = 1]_vars

\* a second full iteration of one LazyTractogram that yielded two items
C11_Witness ==
  /\ last.op = "LazyTractogram.__iter__"
  /\ last.prevOp = "LazyTractogram.__iter__"
  /\ last.prevRecv = last.recv
  /\ Len(last.out) = 2
  /\ last.out = LazyTractogram_data(lz[last.recv])

\* C12: apply_affine(A, lazy=False) and to_world(lazy=False) on a
\* LazyTractogram always raise ValueError: nothing is returned, no producer
\* is called, and no object changes, in particular not the receiver's
\* pending affine, world-affine and count.
C12_NotLazyIsRejected ==
  [][(/\ ops' = ops + 1
      /\ last'.op \in {"LazyTractogram.apply_affine", "LazyTractogram.to_world"}
      /\ ~last'.lazy)
     => /\ last'.err = "ValueError"
        /\ last'.ret = NoRef
        /\ last'.calls = NoCalls
        /\ lz' = lz /\ eag' = eag
        /\ lz'[last'.recv].toApply = last'.preL.toApply
        /\ lz'[last'.recv].world = last'.preL.world
        /\ lz'[last'.recv].nb = last'.preL.nb]_vars

\* to_world(lazy=False) was rejected on a LazyTractogram that has a pending
\* affine and a world-affine other than the identity
C12_Witness ==
  /\ last.op = "LazyTractogram.to_world"
  /\ ~last.lazy
  /\ last.err = "ValueError"
  /\ last.preL.toApply # Eye4
  /\ last.preL.world # Eye4

\* C13: create_from over a data_func that yields no item makes a
\* LazyTractogram without error; it has no per-streamline and no per-point
\* key, an iteration of it yields no item, and len() of it returns 0 without
\* error.
C13_CreateFromEmpty ==
  /\ (last.op = "LazyTractogram.create_from" /\ Gens[last.recv] = <<>>)
     => /\ last.err = "none"
        /\ last.ret = [kind |-> "lazy", id |-> Len(lz)]
        /\ DOMAIN lz[Len(lz)].dps = {}
        /\ DOMAIN lz[Len(lz)].dpp = {}
        /\ LazyTractogram_iter(lz[Len(lz)]).out = <<>>
        /\ LazyTractogram_len(lz[Len(lz)]).n = 0
  /\ (/\ last.op \in {"LazyTractogram.__iter__", "LazyTractogram.__len__"}
      /\ last.preL.items.kind = "items"
      /\ Gens[last.preL.items.ref] = <<>>)
     => /\ last.err = "none"
        /\ last.out = <<>>
        /\ last.n = 0

\* len() of a LazyTractogram that create_from has just made over a data_func
\* that yields nothing
C13_Witness ==
  /\ last.op = "LazyTractogram.__len__"
  /\ last.prevOp = "LazyTractogram.create_from"
  /\ last.preL.items.kind = "items"
  /\ Gens[last.preL.items.ref] = <<>>
  /\ last.preL.nb = None
  /\ last.n = 0

IsKeyRead ==
  last.op \in {"LazyTractogram.data_per_streamline[key]", "LazyTractogram.data_per_point[key]"}

\* the name under which a TractogramItem holds the data a key read yields
ItemField ==
  IF last.op = "LazyTractogram.data_per_streamline[key]"
  THEN "data_for_streamline" ELSE "data_for_points"

\* C14: create_from calls data_func exactly once and pulls only its first
\* item; the per-streamline and per-point keys of the LazyTractogram it makes
\* are exactly those of that first item; afterwards every read of one key
\* calls data_func once more, whatever was read before, and yields that
\* key's value of every item in the order data_func yields them.
C14_CreateFromKeys ==
  /\ last.op = "LazyTractogram.create_from"
     => /\ last.err = "none"
        /\ last.calls = [sl |-> 0, items |-> 1, keys |-> 0]
        /\ last.n = IF Gens[last.recv] = <<>> THEN 0 ELSE 1
        /\ lz[last.ret.id].items = Producer("items", last.recv)
        /\ Gens[last.recv] # <<>>
           => /\ DOMAIN lz[last.ret.id].dps = DOMAIN Gens[last.recv][1].data_for_streamline
              /\ DOMAIN lz[last.ret.id].dpp = DOMAIN Gens[last.recv][1].data_for_points
  /\ (IsKeyRead /\ last.preL.items.kind = "items")
     => LET items == Gens[last.preL.items.ref]
        IN /\ last.calls = [sl |-> 0, items |-> 1, keys |-> 1]
           /\ last.out = [i \in 1..Len(items) |-> items[i][ItemField][last.key]]
           /\ lz[last.recv] = last.preL

\* create_from over a data_func that yields two items, then a read of the
\* per-point key "fa"
C14_Witness ==
  /\ last.op = "LazyTractogram.data_per_point[key]"
  /\ last.prevOp = "LazyTractogram.create_from"
  /\ last.preL.items.kind = "items"
  /\ last.key = "fa"
  /\ last.out = << <<3, 4>>, <<5>> >>

C16_GetAffineReturnsCopy ==
  [][ops' = ops + 1
     => /\ last'.op = "Tractogram.get_affine_to_rasmm"
           => /\ last'.arg = eag[last'.recv].aff
              /\ get_affine_to_rasmm(eag'[last'.recv]) = last'.arg
              /\ eag' = eag /\ lz' = lz
        /\ last'.op = "LazyTractogram.get_affine_to_rasmm"
           => /\ last'.arg = lz[last'.recv].world
              /\ lz'[last'.recv].world = last'.arg
              /\ eag' = eag /\ lz' = lz]_vars

\* the second of two calls on one LazyTractogram whose matrix is not the
\* identity; the caller wrote into the matrix the first call returned
C16_Witness ==
  /\ last.op = "LazyTractogram.get_affine_to_rasmm"
  /\ last.prevOp = "LazyTractogram.get_affine_to_rasmm"
  /\ last.prevRecv = last.recv
  /\ last.arg = Turn
  /\ last.arg \notin Written

\* the data of t fits its streamlines: one per-streamline value per
\* streamline, per-point values for as many streamlines and, for each, as
\* many values as the streamline has points
Consistent(t) ==
  /\ \A key \in DOMAIN t.dps : Len(t.dps[key]) = Tractogram_len(t)
  /\ \A key \in DOMAIN t.dpp :
       /\ Len(t.dpp[key]) = Tractogram_len(t)
       /\ \A k \in 1..Tractogram_len(t) : Len(t.dpp[key][k]) = t.lengths[k]

IsMatrixOf(a, n) ==
  /\ Len(a.shape) = 2
  /\ a.shape[1] = n
  /\ Len(a.val) = n
  /\ \A i \in 1..n : Len(a.val[i]) = a.shape[2]

\* C18: every value stored in a PerArrayDict made for n elements is a 2-D
\* array of n rows, whatever was inserted and deleted.  An insertion of a
\* value that has another number of rows, or that is neither 2-D nor a 1-D
\* array of numbers, raises ValueError and leaves keys and values as they
\* were; a 1-D array of n numbers is stored as an (n, 1) array.
C18_PerArrayDictValidates ==
  /\ \A k \in DOMAIN pdict.store : IsMatrixOf(pdict.store[k], pdict.n_elements)
  /\ pdict.n_elements = dlast.pre.n_elements \/ dlast.op = "init"
  /\ dlast.op = "__setitem__"
     => LET v == dlast.value
            n == pdict.n_elements
            oneD == Len(v.shape) = 1 /\ ~v.object
        IN IF (Len(v.shape) = 2 \/ oneD) /\ v.shape[1] = n
           THEN /\ dlast.res.err = "none"
                /\ DOMAIN pdict.store = DOMAIN dlast.pre.store \cup {dlast.key}
                /\ \A k \in DOMAIN dlast.pre.store \ {dlast.key} :
                     pdict.store[k] = dlast.pre.store[k]
                /\ pdict.store[dlast.key].shape = IF oneD THEN <<n, 1>> ELSE v.shape
                /\ \A i \in 1..n :
                     pdict.store[dlast.key].val[i] = IF oneD THEN <<v.val[i]>> ELSE v.val[i]
           ELSE /\ dlast.res.err = "ValueError"
                /\ pdict = dlast.pre

\* a 1-D array of two numbers was stored, as a (2, 1) array, in a dictionary
\* for two elements that held a value already
C18_Witness ==
  /\ dlast.op = "__setitem__"
  /\ dlast.value = Arr1(2)
  /\ dlast.pre.store # NoStore
  /\ dlast.res.err = "none"
  /\ pdict.store[dlast.key].shape = <<2, 1>>
  /\ pdict.store[dlast.key].val = << <<10>>, <<20>> >>

SameArray(a, b) == a.shape = b.shape /\ a.object = b.object /\ a.val = b.val

\* the last access was d[key] with an index that no stored key equals and
\* that every stored value can be indexed with
IndexedAccess ==
  /\ dlast.op = "__getitem__"
  /\ dlast.key.kind \in {"int", "slice", "mask"}
  /\ dlast.key \notin DOMAIN dlast.pre.store
  /\ \A k \in DOMAIN dlast.pre.store : ValidIndex(dlast.pre.store[k], dlast.key)

\* C19: d[idx] for an integer, slice or mask idx that is not a stored key
\* is a new dictionary with the keys of d in which every value is the value
\* of d indexed with idx; d keeps its keys and values.
C19_IndexingReindexes ==
  IndexedAccess
  => /\ dlast.res.err = "none"
     /\ dlast.res.kind = "dict"
     /\ DOMAIN dlast.res.dict.store = DOMAIN dlast.pre.store
     /\ \A k \in DOMAIN dlast.pre.store :
          SameArray(dlast.res.dict.store[k], Index(dlast.pre.store[k], dlast.key))
     /\ pdict = dlast.pre

\* the last access was d[key] with a key that is stored and that every
\* stored value can be indexed with
CollidingAccess ==
  /\ dlast.op = "__getitem__"
  /\ dlast.key \in DOMAIN dlast.pre.store
  /\ \A k \in DOMAIN dlast.pre.store : ValidIndex(dlast.pre.store[k], dlast.key)

\* C20 as stated: d[key] with a key that is both a stored key and a valid
\* index into every value is the re-indexed dictionary.
C20_IndexBeforeKey ==
  CollidingAccess
  => /\ dlast.res.kind = "dict"
     /\ DOMAIN dlast.res.dict.store = DOMAIN dlast.pre.store

\* C20, amended: d[key] looks key up among the stored keys first and gives
\* the value stored under it; only a key that is not stored is taken as an
\* index, and then the result is the re-indexed dictionary.
C20_KeyBeforeIndex ==
  dlast.op = "__getitem__"
  => /\ dlast.key \in DOMAIN dlast.pre.store
        => /\ dlast.res.kind = "value"
           /\ dlast.res.err = "none"
           /\ dlast.res.got = dlast.pre.store[dlast.key]
     /\ IndexedAccess
        => /\ dlast.res.kind = "dict"
           /\ dlast.res.err = "none"
           /\ DOMAIN dlast.res.dict.store = DOMAIN dlast.pre.store
     /\ pdict = dlast.pre

\* d[0] where 0 is a stored key besides a name and every value has a row 0
C20_Witness ==
  /\ CollidingAccess
  /\ dlast.key = IntKey(0)
  /\ StrKey("mean") \in DOMAIN dlast.pre.store
  /\ dlast.pre.n_elements = 2
  /\ dlast.res.kind = "value"

\* C21: for every LazyTractogram, whatever it was made from and whatever its
\* pending affine, the i-th item an iteration yields has the points of the
\* i-th array the streamlines property yields.
C21_ItemsCarryStreamlines ==
  \A j \in 1..Len(lz) :
    /\ Len(LazyTractogram_data(lz[j])) = Len(LazyTractogram_streamlines(lz[j]))
    /\ \A i \in 1..Len(LazyTractogram_data(lz[j])) :
         LazyTractogram_data(lz[j])[i].streamline = LazyTractogram_streamlines(lz[j])[i]

\* the streamlines ss taken to world coordinates by the affine w
WorldOf(w, ss) == [i \in 1..Len(ss) |-> apply_affine(w, ss[i])]

C23_LazyCopyKeepsAll ==
  last.op = "LazyTractogram.copy"
  => /\ last.ret = [kind |-> "lazy", id |-> Len(lz)]
     /\ last.ret.id # last.recv
     /\ lz[last.recv] = last.preL
     /\ lz[last.ret.id].sl = last.preL.sl
     /\ lz[last.ret.id].dps = last.preL.dps
     /\ lz[last.ret.id].dpp = last.preL.dpp
     /\ lz[last.ret.id].items = last.preL.items
     /\ lz[last.ret.id].toApply = last.preL.toApply
     /\ lz[last.ret.id].nb = last.preL.nb
     /\ lz[last.ret.id].world = last.preL.world

\* C24: a Tractogram obtained by indexing a Tractogram with a slice has the
\* affine to world of the Tractogram it was taken from.
C24_SliceKeepsAffine ==
  (last.op = "Tractogram.__getitem__" /\ last.err = "none")
  => get_affine_to_rasmm(eag[last.ret.id]) = get_affine_to_rasmm(last.preE)

\* C25: an in-place apply_affine on a Tractogram t leaves, for every
\* LazyTractogram made by from_tractogram(t), the world coordinates it gives
\* (its affine to world, the field world, applied to the streamlines it yields)
\* as they were.
C25_FromTractogramStaysConsistent ==
  [][(last'.op = "Tractogram.apply_affine" /\ ~last'.lazy /\ last'.err = "none")
     => \A j \in 1..Len(lz) :
          (lz[j].sl.kind = "eager" /\ chain[j].applied = <<>> /\ ~chain[j].copied)
          => CloseStreamlines(
               WorldOf(lz[j].world, LazyTractogram_streamlines(lz[j]))',
               WorldOf(lz[j].world, LazyTractogram_streamlines(lz[j])))]_vars

\* C26: an iteration run to its end sets the count to the number of items
\* yielded, and a __len__ that follows returns it without a warning and
\* without a call of a producer; an iteration left before its end leaves the
\* LazyTractogram, its count included, as it was.
C26_IterationSetsCount ==
  /\ last.op = "LazyTractogram.__iter__"
     => /\ lz[last.recv].nb = Len(last.out)
        /\ LazyTractogram_len(lz[last.recv]).n = Len(last.out)
        /\ ~LazyTractogram_len(lz[last.recv]).warned
        /\ LazyTractogram_len(lz[last.recv]).calls = NoCalls
  /\ (/\ last.op = "LazyTractogram.__len__"
      /\ last.prevOp = "LazyTractogram.__iter__"
      /\ last.prevRecv = last.recv)
     => /\ last.n = last.preL.nb
        /\ ~last.warned
        /\ last.calls = NoCalls
  /\ last.op = "LazyTractogram.__iter__ (partial)"
     => /\ lz[last.recv] = last.preL
        /\ lz[last.recv].nb = last.preL.nb

\* __len__ right after the one full iteration of the constructed
\* LazyTractogram, which had no count: 2, no warning, no producer called
C26_Witness ==
  /\ last.op = "LazyTractogram.__len__"
  /\ last.prevOp = "LazyTractogram.__iter__"
  /\ last.recv = 1
  /\ last.prevRecv = 1
  /\ ops = 2
  /\ last.preL.nb = 2
  /\ last.n = 2
  /\ ~last.warned
  /\ last.calls = NoCalls

\* C27: apply_affine(A, lazy=False) with a singular A ends in an error and
\* has changed neither a point nor the stored affine of the Tractogram.
C27_SingularFailsFast ==
  (IsEagerCall("Tractogram.apply_affine") /\ IsSingular(last.arg))
  => /\ last.err # "none"
     /\ eag[last.recv] = last.preE

\* the least integer not below n / b
CeilDiv(n, b) == (n + b - 1) \div b

\* C28: the loop goes through a buffer of N >= 1 points in consecutive
\* ranges of size B >= 1: the c-th range is [(c - 1) B, min(c B, N)), every
\* index is written once and no more, every point is transformed once (the
\* points below start are the transformed ones, the others untouched), the
\* buffer at the end is the whole buffer transformed at once, and the loop
\* is left after ceil(N / B) passes.
C28_ChunksCoverOnce ==
  loop.pc # "none"
  => /\ \A c \in 1..Len(loop.ranges) :
          loop.ranges[c] = <<(c - 1) * loop.B, Min(c * loop.B, Len(loop.orig))>>
     /\ \A k \in 1..Len(loop.orig) :
          /\ loop.visits[k] = Cardinality({c \in 1..Len(loop.ranges) :
                                 k > loop.ranges[c][1] /\ k <= loop.ranges[c][2]})
          /\ loop.visits[k] = IF k <= loop.start THEN 1 ELSE 0
          /\ loop.data[k] = IF k <= loop.start
                            THEN ApplyPt(loop.affine, loop.orig[k])
                            ELSE loop.orig[k]
     /\ Len(loop.data) = Len(loop.orig)
     /\ loop.pc = "done"
        => /\ \A k \in 1..Len(loop.orig) : loop.visits[k] = 1
           /\ loop.data = apply_affine(loop.affine, loop.orig)
           /\ loop.data = TransformInChunks(loop.orig, loop.affine, 0, loop.B)
           /\ Len(loop.ranges) = CeilDiv(Len(loop.orig), loop.B)

\* the loop is over after two passes on three points with chunks of two, the
\* last chunk a short one
C28_Witness ==
  /\ loop.pc = "done"
  /\ Len(loop.orig) = 3
  /\ loop.B = 2
  /\ loop.affine = Turn
  /\ loop.ranges = <<<<0, 2>>, <<2, 3>>>>
  /\ loop.data # loop.orig

====
